---- MODULE Spec2Model ----
(***************************************************************************)
(* NullVoid ML model: the scoring service (ml-model/serve.py) and the two  *)
(* training programs (ml-model/train.py, ml-model/train-behavioral.py).    *)
(*                                                                         *)
(* Numbers: probabilities and importances are percentages (0.5 is 50),     *)
(* feature values are integers.  A Python value is a record tagged with    *)
(* its type; a Python object is a record whose fields are its attributes,  *)
(* so hasattr(o, "a") is "a" \in DOMAIN o; a dict is a function from its   *)
(* keys.  A call that may raise returns Ok(value) or Raise(exception).     *)
(***************************************************************************)
EXTENDS Integers, Sequences, FiniteSets, TLC

VARIABLES
    model,          \* serve.py global: None or the loaded classifier object
    feature_keys,   \* serve.py global: None or the loaded list of feature keys
    metadata,       \* serve.py global: None or the loaded metadata dict
    model_dir,      \* serve.py global: None or the directory of the last load_model call
    req,            \* the last operation called, with its arguments
    resp,           \* what that operation returned, or [exception |-> e] when it raised
    lpc,            \* the thread inside load_model: the line it is about to run, or "idle"
    ldir,           \* load_model's model_dir argument
    rpc,            \* the thread inside score or batch_score: the line it is about to run
    r_keys,         \* feature_keys as extract_vector read it, once per vectorized row
    r_model,        \* the classifier predict_proba was called on, None before the call
    r_model74,      \* the classifier get_feature_importance read, None before the read
    v_fn,           \* the vectorizer applied: "serve", "train", "train-behavioral", or "none" yet
    v_in,           \* its argument: a feature mapping (serve) or a row (training)
    v_keys,         \* serve.py's global feature_keys at the call
    v_out,          \* what it returned: Ok(vector) or Raise(exception)
    prog,           \* the training program run: "train" or "train-behavioral"
    args,           \* its command line: balance, no_calibrate, test_size (in percent)
    rows,           \* main's rows, as load_jsonl returns them
    pc,             \* the statement of main about to run, "done", or "exit"
    exit_code,      \* the process's exit code once it has ended, -1 before
    X,              \* main's locals, <<>> or 0 before their assignment
    y,
    X_train,
    y_train,
    X_test,
    y_test,
    n_pos,
    n_neg,
    scale_pos_weight, \* the ratio <<n_neg, n_pos>>, <<1, 1>> for 1.0
    metrics,        \* the keys of main's metrics dict
    calls,          \* the library calls made so far: train_test_split, resample, fit, predict
    files           \* the files written so far

serveVars == <<model, feature_keys, metadata, model_dir, req, resp>>
threadVars == <<lpc, ldir, rpc, r_keys, r_model, r_model74>>

vecVars == <<v_fn, v_in, v_keys, v_out>>

trainVars == <<prog, args, rows, pc, exit_code, X, y, X_train, y_train, X_test, y_test,
               n_pos, n_neg, scale_pos_weight, metrics, calls, files>>

vars == <<serveVars, threadVars, vecVars, trainVars>>

-----------------------------------------------------------------------------
(* Python values *)

None == [none |-> TRUE]
PyList(s) == [list |-> s]
Num(n) == [t |-> "num", n |-> n, s |-> ""]
Str(s) == [t |-> "str", n |-> 0, s |-> s]

Path(d) == [path |-> d]

Ok(v) == [ok |-> TRUE, val |-> v]
Raise(e) == [ok |-> FALSE, err |-> e]

\* the strings float() parses, with their values
NumericStrings == {"7"}
StrValue(s) == IF s = "7" THEN 7 ELSE 0

\* float(v): a number converts to itself, a numeric string to its value, any
\* other string raises ValueError
Float(v) ==
    IF v.t = "num" THEN Ok(v.n)
    ELSE IF v.s \in NumericStrings THEN Ok(StrValue(v.s))
    ELSE Raise("ValueError: could not convert string to float")

\* feats.get(k, 0)
Get(feats, k) == IF k \in DOMAIN feats THEN feats[k] ELSE Num(0)

\* the range of a sequence
Range(s) == {s[i] : i \in DOMAIN s}

Min(a, b) == IF a < b THEN a ELSE b
Abs(a) == IF a < 0 THEN -a ELSE a

-----------------------------------------------------------------------------
(* The feature schemas and the human-readable reasons *)

\* the schema built into train.py (FEATURE_KEYS) and the one load_model falls
\* back to when the directory holds no feature_keys.pkl
FEATURE_KEYS ==
    << "daysDifference", "recentCommitCount", "scopePrivate", "suspiciousPatternsCount",
       "timelineAnomaly", "registryIsNpm", "authorCount", "totalCommitCount",
       "dominantAuthorShare", "commitPatternAnomaly", "branchCount", "recentCommitCount90d",
       "messageAnomalyScore", "diffAnomalyScore", "nlpSecurityScore", "nlpSuspiciousCount",
       "crossPackageAnomaly", "behavioralAnomaly", "reviewSecurityScore", "popularityScore",
       "trustScore" >>

DefaultKeys == FEATURE_KEYS

BEHAVIORAL_FEATURE_KEYS ==
    << "scriptCount", "scriptTotalLength", "hasPostinstall", "postinstallLength",
       "preinstallLength", "postuninstallLength", "networkScriptCount", "evalUsageCount",
       "childProcessCount", "fileSystemAccessCount", "dependencyCount", "devDependencyCount" >>

\* the keys of FEATURE_REASONS, each with its sentence
FEATURE_REASONS ==
    [ timelineAnomaly |-> "Package created very recently relative to repo history",
      scopePrivate |-> "Private scope package may be vulnerable to dependency confusion",
      suspiciousPatternsCount |-> "Package name follows suspicious naming patterns",
      commitPatternAnomaly |-> "Unusual commit patterns (single author, low activity)",
      nlpSecurityScore |-> "NLP analysis detected security-related phrases",
      crossPackageAnomaly |-> "Cross-package behavioral anomaly detected",
      behavioralAnomaly |-> "Behavioral anomaly in package metadata",
      reviewSecurityScore |-> "Low community review/security score",
      popularityScore |-> "Low popularity score",
      trustScore |-> "Low trust score",
      daysDifference |-> "Short time between package creation and first commit",
      recentCommitCount |-> "Low recent commit activity",
      dominantAuthorShare |-> "Single author dominates commits" ]

-----------------------------------------------------------------------------
(* Classifier objects and the artifact directories on disk *)

\* an xgboost classifier: it has feature_importances_ and predict_proba, and
\* shap's TreeExplainer accepts it
XGBClassifier(id, nfeat, imps, bias) ==
    [ id |-> id, n_features |-> nfeat, n_outputs |-> 2, bias |-> bias,
      predict_proba |-> TRUE, feature_importances_ |-> imps, tree |-> TRUE ]

\* one fitted fold of a calibration wrapper: _CalibratedClassifier(estimator, calibrators)
CalibratedFold(est) == [estimator |-> est, calibrators |-> "sigmoid"]

\* CalibratedClassifierCV(base, method="sigmoid", cv=3) after fit: predict_proba,
\* no feature_importances_ of its own, not a tree model
CalibratedClassifierCV(id, nfeat, folds, bias) ==
    [ id |-> id, n_features |-> nfeat, n_outputs |-> 2, bias |-> bias,
      predict_proba |-> TRUE, calibrated_classifiers_ |-> folds, tree |-> FALSE ]

\* the schema stored in the directories that hold a feature_keys.pkl of their own
KeysV1 == <<"daysDifference", "registryIsNpm">>
KeysV3 == <<"registryIsNpm", "trustScore", "daysDifference">>

BaseV1 == XGBClassifier("v1-fold", 2, <<60, 40>>, 30)

ImportancesV2 == [i \in 1..Len(DefaultKeys) |-> IF i <= 7 THEN 8 - i ELSE 0]

\* The directories load_model is called with.
\*   v1  what train.py --output-dir writes: a calibrated xgboost model, its
\*       feature_keys.pkl and metadata.json
\*   v2  a bare model.pkl (xgboost, uncalibrated, trained on the built-in
\*       schema): no feature_keys.pkl, no metadata.json
\*   v3  a calibration wrapper whose folds keep their estimator under another
\*       attribute (so it cannot be unwrapped) and whose predict_proba has a
\*       single column; feature_keys.pkl and metadata.json present
Dirs == {"v1", "v2", "v3"}

ModelFile(d) ==
    CASE d = "v1" ->
           CalibratedClassifierCV("v1", 2,
               <<CalibratedFold(BaseV1), CalibratedFold(BaseV1), CalibratedFold(BaseV1)>>, 30)
      [] d = "v2" ->
           XGBClassifier("v2", Len(DefaultKeys), ImportancesV2, 45)
      [] OTHER ->
           [ id |-> "v3", n_features |-> 3, n_outputs |-> 1, bias |-> 60,
             predict_proba |-> TRUE, tree |-> FALSE,
             calibrated_classifiers_ |-> <<[base_estimator |-> "LogisticRegression"]>> ]

KeysFileExists(d) == d \in {"v1", "v3"}
KeysFile(d) == IF d = "v1" THEN PyList(KeysV1) ELSE PyList(KeysV3)

MetaFileExists(d) == d \in {"v1", "v3"}
MetaFile(d) ==
    [ model_type |-> IF d = "v1" THEN "xgboost_calibrated" ELSE "custom",
      feature_keys |-> KeysFile(d), dataset_size |-> IF d = "v1" THEN 6 ELSE 4 ]

\* the classifier, schema and metadata a complete load_model(d) installs
ArtifactModel(d) == ModelFile(d)
ArtifactKeys(d) == IF KeysFileExists(d) THEN KeysFile(d) ELSE PyList(DefaultKeys)
ArtifactMeta(d) ==
    IF MetaFileExists(d) THEN MetaFile(d)
    ELSE [model_type |-> "unknown", feature_keys |-> ArtifactKeys(d)]

-----------------------------------------------------------------------------
(* load_model *)

\* the read of load_model that raises (an unreadable or corrupt file), if any
LoadFaults == {"none", "model", "keys", "meta"}

\* a read can only fail when the file is read at all
CanFail(d, fault) ==
    /\ fault = "keys" => KeysFileExists(d)
    /\ fault = "meta" => MetaFileExists(d)

\* load_model(path, dir_path) with path = dir_path / "model.pkl": the four
\* globals are assigned one after the other, in source order, up to the read
\* that raises
load_model(d, fault) ==
    /\ CanFail(d, fault)
    /\ model_dir' = Path(d)
    /\ model' = IF fault = "model" THEN model ELSE ModelFile(d)
    /\ feature_keys' =
          IF fault \in {"model", "keys"} THEN feature_keys
          ELSE IF KeysFileExists(d) THEN KeysFile(d) ELSE PyList(DefaultKeys)
    /\ metadata' =
          IF fault \in {"model", "keys", "meta"} THEN metadata
          ELSE IF MetaFileExists(d) THEN MetaFile(d)
          ELSE [model_type |-> "unknown", feature_keys |-> feature_keys']
    /\ req' = [op |-> "load_model", dir |-> d]
    /\ resp' = IF fault = "none" THEN None ELSE [exception |-> fault]

-----------------------------------------------------------------------------
(* Helpers of the scoring service *)

hasattr(o, a) == a \in DOMAIN o

\* the sum of a sequence of numbers
RECURSIVE SeqSum(_)
SeqSum(s) == IF s = <<>> THEN 0 ELSE Head(s) + SeqSum(Tail(s))

\* sorted(items, key=w, reverse=True) over records with a field w: descending,
\* and stable (equal keys keep their order)
RECURSIVE InsertDesc(_, _)
InsertDesc(x, s) ==
    IF s = <<>> THEN <<x>>
    ELSE IF Head(s).w >= x.w THEN <<Head(s)>> \o InsertDesc(x, Tail(s))
    ELSE <<x>> \o s

RECURSIVE SortedDesc(_)
SortedDesc(s) ==
    IF s = <<>> THEN <<>>
    ELSE InsertDesc(s[Len(s)], SortedDesc(SubSeq(s, 1, Len(s) - 1)))

\* s[:n]
Take(s, n) == SubSeq(s, 1, Min(n, Len(s)))

\* a dict is the sequence of its items [k, v], in insertion order
DictKeys(d) == [i \in DOMAIN d |-> d[i].k]
DictGet(d, k, default) ==
    IF \E i \in DOMAIN d : d[i].k = k
    THEN d[CHOOSE i \in DOMAIN d : d[i].k = k].v
    ELSE default

\* feature_keys or []
KeysOrEmpty(fk) == IF fk = None THEN <<>> ELSE fk.list

get_base_estimator(m) ==
    IF hasattr(m, "calibrated_classifiers_") /\ Len(m.calibrated_classifiers_) > 0
    THEN LET first == m.calibrated_classifiers_[1]
             base == IF hasattr(first, "tuple") THEN first.tuple[1] ELSE first
         IN  IF hasattr(base, "estimator") /\ hasattr(base.estimator, "feature_importances_")
             THEN base.estimator
             ELSE IF hasattr(base, "feature_importances_") THEN base
             ELSE m
    ELSE m

\* get_feature_importance(), reading the global model (m) and feature_keys (fk)
get_feature_importance(m, fk) ==
    LET base == get_base_estimator(m) IN
    IF base = None \/ ~hasattr(base, "feature_importances_") THEN <<>>
    ELSE LET keys == KeysOrEmpty(fk)
             imp == base.feature_importances_
         IN  [i \in 1..Min(Len(keys), Len(imp)) |-> [k |-> keys[i], v |-> imp[i]]]

\* f"{k}={val:.2f}: {reason}": the key, the value to two decimals (in
\* hundredths) and the sentence of FEATURE_REASONS, "" when the key has none
Reason(k, val) ==
    [ key |-> k, hundredths |-> 100 * val.n,
      text |-> IF k \in DOMAIN FEATURE_REASONS THEN FEATURE_REASONS[k] ELSE "" ]

\* get_top_reasons(feats, importance, top_n); the format code f raises for a string
get_top_reasons(feats, importance, top_n) ==
    LET byImp == SortedDesc([i \in DOMAIN importance |->
                     [k |-> importance[i].k, w |-> importance[i].v]])
        Positive(x) == x.w > 0
        top == SelectSeq(Take(byImp, top_n), Positive)
    IN  IF \E i \in DOMAIN top : Get(feats, top[i].k).t # "num"
        THEN Raise("ValueError: Unknown format code 'f' for object of type 'str'")
        ELSE Ok([i \in DOMAIN top |-> Reason(top[i].k, Get(feats, top[i].k))])

\* a vectorizer that leaves out the keys the mapping does not have
extract_vector_present_only(feats, fk) ==
    LET keys == SelectSeq(KeysOrEmpty(fk), LAMBDA k : k \in DOMAIN feats)
        conv == [i \in DOMAIN keys |-> Float(feats[keys[i]])]
    IN  IF \E i \in DOMAIN conv : ~conv[i].ok
        THEN Raise("ValueError: could not convert string to float")
        ELSE Ok([i \in DOMAIN keys |-> conv[i].val])

\* extract_vector(feats), reading the global feature_keys (fk)
extract_vector(feats, fk) ==
    LET keys == KeysOrEmpty(fk)
        conv == [i \in DOMAIN keys |-> Float(Get(feats, keys[i]))]
    IN  IF \E i \in DOMAIN conv : ~conv[i].ok
        THEN conv[CHOOSE i \in DOMAIN conv :
                    ~conv[i].ok /\ \A j \in 1..(i - 1) : conv[j].ok]
        ELSE Ok([i \in DOMAIN keys |-> conv[i].val])

\* a dict as a value of a row
Dict(d) == [t |-> "dict", n |-> 0, s |-> "", d |-> d]

\* extract_features(row) of train.py and train-behavioral.py, which differ in
\* the schema only: row.get("features", row), then the same list of floats; a
\* "features" entry that is no dict has no get
extract_features_keys(row, keys) ==
    IF "features" \in DOMAIN row /\ row["features"].t # "dict"
    THEN Raise("AttributeError: object has no attribute 'get'")
    ELSE LET feats == IF "features" \in DOMAIN row THEN row["features"].d ELSE row
             conv == [i \in DOMAIN keys |-> Float(Get(feats, keys[i]))]
         IN  IF \E i \in DOMAIN conv : ~conv[i].ok
             THEN conv[CHOOSE i \in DOMAIN conv :
                         ~conv[i].ok /\ \A j \in 1..(i - 1) : conv[j].ok]
             ELSE Ok([i \in DOMAIN keys |-> conv[i].val])

\* train.py
extract_features(row) == extract_features_keys(row, FEATURE_KEYS)

\* train-behavioral.py
extract_features_behavioral(row) == extract_features_keys(row, BEHAVIORAL_FEATURE_KEYS)

Clamp(x) == IF x < 0 THEN 0 ELSE IF x > 100 THEN 100 ELSE x

\* one row of predict_proba: the class probabilities of a row, a fixed
\* function of the classifier and the row
RowProba(m, vec) ==
    LET p1 == Clamp(m.bias + 5 * SeqSum(vec)) IN
    IF m.n_outputs > 1 THEN <<100 - p1, p1>> ELSE <<p1>>

\* model.predict_proba(vectors): one batched call; it raises on an empty
\* batch and on rows that do not have the classifier's number of features
predict_proba(m, vectors) ==
    IF vectors = <<>> THEN Raise("ValueError: Expected 2D array")
    ELSE IF \E i \in DOMAIN vectors : Len(vectors[i]) # m.n_features
    THEN Raise("ValueError: Feature shape mismatch")
    ELSE Ok([i \in DOMAIN vectors |-> RowProba(m, vectors[i])])

\* proba[1] if len(proba) > 1 else proba[0]
BadProbClass0(proba) == proba[1]
BadProb(proba) == IF Len(proba) > 1 THEN proba[2] ELSE proba[1]

-----------------------------------------------------------------------------
(* The request handlers, as functions of what they read from the globals.  *)
(* Each parameter named after a source line is the value of the global     *)
(* read at that line.                                                      *)

NotLoadedScoreZero == [score |-> 0, error |-> "Model not loaded"]
NotLoadedScore == [score |-> 50, error |-> "Model not loaded"]

\* score(req) past the "model is None" test: lines 140-151
ScoreResult(features, explain, keys132, model142, model74, keys77) ==
    LET vec == extract_vector(features, keys132) IN
    IF ~vec.ok THEN [score |-> 50, error |-> vec.err]
    ELSE LET probas == predict_proba(model142, <<vec.val>>) IN
    IF ~probas.ok THEN [score |-> 50, error |-> probas.err]
    ELSE LET bad_prob == BadProb(probas.val[1]) IN
    IF ~explain THEN [score |-> bad_prob]
    ELSE LET importance == get_feature_importance(model74, keys77)
             reasons == get_top_reasons(features, importance, 5)
         IN  IF ~reasons.ok THEN [score |-> 50, error |-> reasons.err]
             ELSE [score |-> bad_prob, importance |-> importance, reasons |-> reasons.val]

\* line 161: the score of each row of the batched prediction
BatchScoresClass0(probas) == [i \in DOMAIN probas |-> probas[i][1]]
BatchScores(probas) == [i \in DOMAIN probas |-> BadProb(probas[i])]

\* what batch_score returns from its except clause
BatchError(e) == [scores |-> <<>>, error |-> e]

\* batch_score(req) past the "model is None" test: lines 158-169; keys132[i]
\* is feature_keys as extract_vector read it for row i
BatchResult(features_list, explain, keys132, model160, model74, keys77) ==
    LET vecs == [i \in DOMAIN features_list |-> extract_vector(features_list[i], keys132[i])] IN
    IF \E i \in DOMAIN vecs : ~vecs[i].ok
    THEN BatchError(vecs[CHOOSE i \in DOMAIN vecs :
                            ~vecs[i].ok /\ \A j \in 1..(i - 1) : vecs[j].ok].err)
    ELSE LET probas == predict_proba(model160, [i \in DOMAIN vecs |-> vecs[i].val]) IN
    IF ~probas.ok THEN BatchError(probas.err)
    ELSE LET scores == BatchScores(probas.val) IN
    IF ~(explain /\ features_list # <<>>) THEN [scores |-> scores]
    ELSE LET importance == get_feature_importance(model74, keys77)
             reasons == [i \in DOMAIN features_list |->
                            get_top_reasons(features_list[i], importance, 5)]
         IN  IF \E i \in DOMAIN reasons : ~reasons[i].ok
             THEN BatchError(reasons[CHOOSE i \in DOMAIN reasons : ~reasons[i].ok].err)
             ELSE [ scores |-> scores, importance |-> importance,
                    reasons_list |-> [i \in DOMAIN reasons |-> reasons[i].val] ]

\* dict(sorted(contrib.items(), key=lambda x: abs(x[1]), reverse=True)[:10])
Top10(contrib) ==
    LET ranked == SortedDesc([i \in DOMAIN contrib |->
                      [k |-> contrib[i].k, v |-> contrib[i].v, w |-> Abs(contrib[i].v)]])
    IN  [i \in DOMAIN Take(ranked, 10) |-> [k |-> ranked[i].k, v |-> ranked[i].v]]

\* lines 205-207: importance * value per schema key; a float times a string,
\* or abs() of a string, raises TypeError
HeuristicContributions(features, importance, keys) ==
    IF \E i \in DOMAIN keys : Get(features, keys[i]).t # "num"
    THEN Raise("TypeError: can't multiply sequence by non-int of type 'float'")
    ELSE Ok(Top10([i \in DOMAIN keys |->
                [k |-> keys[i], v |-> DictGet(importance, keys[i], 0) * Get(features, keys[i]).n]]))

\* shap.TreeExplainer(base).shap_values([vec])[0]: the exact attribution of one
\* row; the explainer refuses an estimator that is no tree model, and a row
\* that does not have the estimator's number of features
TreeShapValues(base, vec) ==
    IF ~base.tree THEN Raise("InvalidModelError: Model type not yet supported by TreeExplainer")
    ELSE IF Len(vec) # base.n_features THEN Raise("ValueError: Feature shape mismatch")
    ELSE Ok([i \in DOMAIN vec |-> 5 * vec[i]])

\* explain_post(req) past the "model is None" test: lines 202-223.  Only the
\* ImportError of "import shap" is caught; every other exception leaves the
\* handler.
ExplainPostResult(features, m, fk, shap) ==
    LET vec == extract_vector(features, fk) IN
    IF ~vec.ok THEN [exception |-> vec.err]
    ELSE LET importance == get_feature_importance(m, fk)
             keys == KeysOrEmpty(fk)
             heur == HeuristicContributions(features, importance, keys)
         IN
    IF ~heur.ok THEN [exception |-> heur.err]
    ELSE LET reasons == get_top_reasons(features, importance, 5) IN
    IF ~reasons.ok THEN [exception |-> reasons.err]
    ELSE LET base == get_base_estimator(m) IN
    IF ~shap \/ base = None \/ ~hasattr(base, "predict_proba")
    THEN [contributions |-> heur.val, reasons |-> reasons.val]
    ELSE LET sv == TreeShapValues(base, vec.val) IN
    IF ~sv.ok THEN [exception |-> sv.err]
    ELSE [ contributions |->
               Top10([i \in 1..Min(Len(keys), Len(sv.val)) |-> [k |-> keys[i], v |-> sv.val[i]]]),
           reasons |-> reasons.val ]

-----------------------------------------------------------------------------
(* The requests *)

ReqKeys == {"daysDifference", "registryIsNpm"}
ReqValues == {Num(3), Num(-2), Str("7"), Str("abc")}
BatchKeys == {"daysDifference"}
BatchValues == {Num(3), Str("7"), Str("abc")}

\* the feature mappings of score and explain requests
FeatMaps == UNION {[S -> ReqValues] : S \in SUBSET ReqKeys}

\* the feature mappings of the rows of a batch
BatchMaps == UNION {[S -> BatchValues] : S \in SUBSET BatchKeys}

\* the longest features_list
MaxBatch == 2

BatchLists == UNION {[1..n -> BatchMaps] : n \in 0..MaxBatch}

-----------------------------------------------------------------------------
(* The operations of the scoring service, each run from start to end *)

score(features, explain) ==
    /\ req' = [op |-> "score", features |-> features, explain |-> explain]
    /\ resp' = IF model = None THEN NotLoadedScore
               ELSE ScoreResult(features, explain, feature_keys, model, model, feature_keys)
    /\ UNCHANGED <<model, feature_keys, metadata, model_dir>>

\* a batch answered row by row, each row with its own try/except
batch_score_rowwise(features_list, explain) ==
    LET singles == [i \in DOMAIN features_list |->
                       ScoreResult(features_list[i], FALSE, feature_keys, model, model, feature_keys)]
        good == SelectSeq(singles, LAMBDA r : "error" \notin DOMAIN r)
        scores == [i \in DOMAIN good |-> good[i].score]
    IN
    /\ req' = [op |-> "batch_score", features_list |-> features_list, explain |-> explain]
    /\ resp' = IF model = None THEN [scores |-> <<>>, error |-> "Model not loaded"]
               ELSE IF Len(good) = Len(singles) THEN [scores |-> scores]
               ELSE [scores |-> scores, error |-> "some rows failed"]
    /\ UNCHANGED <<model, feature_keys, metadata, model_dir>>

batch_score(features_list, explain) ==
    /\ req' = [op |-> "batch_score", features_list |-> features_list, explain |-> explain]
    /\ resp' = IF model = None THEN [scores |-> <<>>, error |-> "Model not loaded"]
               ELSE BatchResult(features_list, explain,
                                [i \in DOMAIN features_list |-> feature_keys],
                                model, model, feature_keys)
    /\ UNCHANGED <<model, feature_keys, metadata, model_dir>>

\* shap: whether "import shap" succeeds during this request
explain_post(features, shap) ==
    /\ req' = [op |-> "explain_post", features |-> features, shap |-> shap]
    /\ resp' = IF model = None THEN [error |-> "Model not loaded"]
               ELSE ExplainPostResult(features, model, feature_keys, shap)
    /\ UNCHANGED <<model, feature_keys, metadata, model_dir>>

\* GET /importance and GET /explain share their body
ImportanceResult ==
    IF model = None THEN [error |-> "Model not loaded"]
    ELSE [ importance |-> get_feature_importance(model, feature_keys),
           feature_keys |-> KeysOrEmpty(feature_keys) ]

importance_endpoint ==
    /\ req' = [op |-> "importance_endpoint"]
    /\ resp' = ImportanceResult
    /\ UNCHANGED <<model, feature_keys, metadata, model_dir>>

explain_get ==
    /\ req' = [op |-> "explain_get"]
    /\ resp' = ImportanceResult
    /\ UNCHANGED <<model, feature_keys, metadata, model_dir>>

EmptyDict == [k \in {} |-> None]

model_info ==
    /\ req' = [op |-> "model_info"]
    /\ resp' = [ loaded |-> model # None, model_dir |-> model_dir,
                 metadata |-> IF metadata = None THEN EmptyDict ELSE metadata ]
    /\ UNCHANGED <<model, feature_keys, metadata, model_dir>>

health ==
    /\ req' = [op |-> "health"]
    /\ resp' = [ok |-> model # None]
    /\ UNCHANGED <<model, feature_keys, metadata, model_dir>>

-----------------------------------------------------------------------------
(* The scoring service *)

\* the module-level assignments of serve.py: nothing loaded, no call in progress
ServeInit ==
    /\ model = None
    /\ feature_keys = None
    /\ metadata = None
    /\ model_dir = None
    /\ req = [op |-> "start"]
    /\ resp = None

ThreadsIdle ==
    /\ lpc = "idle"
    /\ ldir = "v1"
    /\ rpc = "idle"
    /\ r_keys = <<>>
    /\ r_model = None
    /\ r_model74 = None

VecIdle ==
    /\ v_fn = "none"
    /\ v_in = <<>>
    /\ v_keys = None
    /\ v_out = None

\* no training program is running
TrainIdle ==
    /\ prog = "train"
    /\ args = [balance |-> FALSE, no_calibrate |-> FALSE, test_size |-> 20]
    /\ rows = <<>>
    /\ pc = "idle"
    /\ exit_code = -1
    /\ X = <<>> /\ y = <<>>
    /\ X_train = <<>> /\ y_train = <<>>
    /\ X_test = <<>> /\ y_test = <<>>
    /\ n_pos = 0 /\ n_neg = 0
    /\ scale_pos_weight = <<>>
    /\ metrics = {}
    /\ calls = {}
    /\ files = {}

Init ==
    /\ ServeInit
    /\ ThreadsIdle
    /\ VecIdle
    /\ TrainIdle

\* one operation at a time, each run from call to return
Next ==
    \/ \E d \in Dirs, fault \in LoadFaults : load_model(d, fault) /\ UNCHANGED <<threadVars, vecVars, trainVars>>
    \/ \E f \in FeatMaps, e \in BOOLEAN : score(f, e) /\ UNCHANGED <<threadVars, vecVars, trainVars>>
    \/ \E fl \in BatchLists, e \in BOOLEAN : batch_score(fl, e) /\ UNCHANGED <<threadVars, vecVars, trainVars>>
    \/ \E f \in FeatMaps, shap \in BOOLEAN : explain_post(f, shap) /\ UNCHANGED <<threadVars, vecVars, trainVars>>
    \/ importance_endpoint /\ UNCHANGED <<threadVars, vecVars, trainVars>>
    \/ explain_get /\ UNCHANGED <<threadVars, vecVars, trainVars>>
    \/ model_info /\ UNCHANGED <<threadVars, vecVars, trainVars>>
    \/ health /\ UNCHANGED <<threadVars, vecVars, trainVars>>

Spec == Init /\ [][Next]_vars

-----------------------------------------------------------------------------
(* load_model on one thread and score or batch_score on another, line by   *)
(* line.  Each step is one read or one assignment of a global.             *)

\* the directories and requests of the interleaved runs
ReloadDirs == {"v1", "v3"}
ThreadMaps == {<<>>, [daysDifference |-> Num(3)], [daysDifference |-> Str("abc")]}
ThreadLists == UNION {[1..n -> ThreadMaps] : n \in 0..MaxBatch}

\* line 101: the call, and the assignment of model_dir
LoadCall(d) ==
    /\ lpc = "idle"
    /\ ldir' = d
    /\ model_dir' = Path(d)
    /\ lpc' = "l102"
    /\ UNCHANGED <<model, feature_keys, metadata, req, resp, rpc, r_keys, r_model, r_model74>>

\* line 102: model = joblib.load(path), or the exception that ends the call
Load102(raises) ==
    /\ lpc = "l102"
    /\ model' = IF raises THEN model ELSE ModelFile(ldir)
    /\ lpc' = IF raises THEN "idle" ELSE "l104"
    /\ UNCHANGED <<feature_keys, metadata, model_dir, ldir, req, resp, rpc, r_keys, r_model, r_model74>>

\* lines 103-111: feature_keys = the stored list, or the built-in one
Load104(raises) ==
    /\ lpc = "l104"
    /\ raises => KeysFileExists(ldir)
    /\ feature_keys' =
          IF raises THEN feature_keys
          ELSE IF KeysFileExists(ldir) THEN KeysFile(ldir) ELSE PyList(DefaultKeys)
    /\ lpc' = IF raises THEN "idle" ELSE "l113"
    /\ UNCHANGED <<model, metadata, model_dir, ldir, req, resp, rpc, r_keys, r_model, r_model74>>

\* lines 112-118: metadata = the stored dict, or the default one
Load113(raises) ==
    /\ lpc = "l113"
    /\ raises => MetaFileExists(ldir)
    /\ metadata' =
          IF raises THEN metadata
          ELSE IF MetaFileExists(ldir) THEN MetaFile(ldir)
          ELSE [model_type |-> "unknown", feature_keys |-> feature_keys]
    /\ lpc' = "idle"
    /\ UNCHANGED <<model, feature_keys, model_dir, ldir, req, resp, rpc, r_keys, r_model, r_model74>>

\* a score request arrives
ScoreCall(features, explain) ==
    /\ rpc = "idle"
    /\ req' = [op |-> "score", features |-> features, explain |-> explain]
    /\ resp' = None
    /\ rpc' = "none_test"
    /\ r_keys' = <<>>
    /\ r_model' = None
    /\ r_model74' = None
    /\ UNCHANGED <<model, feature_keys, metadata, model_dir, lpc, ldir>>

\* a batch_score request arrives
BatchCall(features_list, explain) ==
    /\ rpc = "idle"
    /\ req' = [op |-> "batch_score", features_list |-> features_list, explain |-> explain]
    /\ resp' = None
    /\ rpc' = "none_test"
    /\ r_keys' = <<>>
    /\ r_model' = None
    /\ r_model74' = None
    /\ UNCHANGED <<model, feature_keys, metadata, model_dir, lpc, ldir>>

\* lines 138 and 156: if model is None
NoneTest ==
    /\ rpc = "none_test"
    /\ IF model = None
       THEN /\ resp' = IF req.op = "score" THEN NotLoadedScore
                       ELSE [scores |-> <<>>, error |-> "Model not loaded"]
            /\ rpc' = "idle"
       ELSE /\ resp' = resp
            /\ rpc' = IF req.op = "batch_score" /\ req.features_list = <<>>
                      THEN "predict" ELSE "vectorize"
    /\ UNCHANGED <<model, feature_keys, metadata, model_dir, req, lpc, ldir, r_keys, r_model, r_model74>>

\* the rows of the request in progress
RequestRows == IF req.op = "score" THEN <<req.features>> ELSE req.features_list

\* lines 141 and 159: extract_vector of the next row, which reads feature_keys
Vectorize ==
    /\ rpc = "vectorize"
    /\ r_keys' = Append(r_keys, feature_keys)
    /\ LET row == RequestRows[Len(r_keys) + 1]
           vec == extract_vector(row, feature_keys)
       IN  IF ~vec.ok
           THEN /\ resp' = IF req.op = "score" THEN [score |-> 50, error |-> vec.err]
                           ELSE BatchError(vec.err)
                /\ rpc' = "idle"
           ELSE /\ resp' = resp
                /\ rpc' = IF Len(r_keys) + 1 = Len(RequestRows) THEN "predict" ELSE "vectorize"
    /\ UNCHANGED <<model, feature_keys, metadata, model_dir, req, lpc, ldir, r_model, r_model74>>

\* the response of the request in progress, from what it has read so far and
\* what the globals hold now
ThreadResult(m142, m74, k77) ==
    IF req.op = "score"
    THEN ScoreResult(req.features, req.explain, r_keys[1], m142, m74, k77)
    ELSE BatchResult(req.features_list, req.explain, r_keys, m142, m74, k77)

\* lines 142 and 160: model.predict_proba, which reads model; the handler
\* returns here unless it goes on to explain
Predict ==
    /\ rpc = "predict"
    /\ r_model' = model
    /\ LET vecs == [i \in DOMAIN RequestRows |->
                       extract_vector(RequestRows[i], r_keys[i]).val]
           explains == req.explain /\ RequestRows # <<>>
       IN  IF predict_proba(model, vecs).ok /\ explains
           THEN resp' = resp /\ rpc' = "importance_model"
           ELSE resp' = ThreadResult(model, model, feature_keys) /\ rpc' = "idle"
    /\ UNCHANGED <<model, feature_keys, metadata, model_dir, req, lpc, ldir, r_keys, r_model74>>

\* line 74: get_base_estimator(model), which reads model
ImportanceModel ==
    /\ rpc = "importance_model"
    /\ r_model74' = model
    /\ rpc' = "importance_keys"
    /\ UNCHANGED <<model, feature_keys, metadata, model_dir, req, resp, lpc, ldir, r_keys, r_model>>

\* line 77: keys = feature_keys or [], then the rest of the handler
ImportanceKeys ==
    /\ rpc = "importance_keys"
    /\ resp' = ThreadResult(r_model, r_model74, feature_keys)
    /\ rpc' = "idle"
    /\ UNCHANGED <<model, feature_keys, metadata, model_dir, req, lpc, ldir, r_keys, r_model, r_model74>>

ThreadNext ==
    \/ \E d \in ReloadDirs : LoadCall(d) /\ UNCHANGED <<vecVars, trainVars>>
    \/ \E raises \in BOOLEAN : Load102(raises) /\ UNCHANGED <<vecVars, trainVars>>
    \/ \E raises \in BOOLEAN : Load104(raises) /\ UNCHANGED <<vecVars, trainVars>>
    \/ \E raises \in BOOLEAN : Load113(raises) /\ UNCHANGED <<vecVars, trainVars>>
    \/ \E f \in ThreadMaps, e \in BOOLEAN : ScoreCall(f, e) /\ UNCHANGED <<vecVars, trainVars>>
    \/ \E fl \in ThreadLists, e \in BOOLEAN : BatchCall(fl, e) /\ UNCHANGED <<vecVars, trainVars>>
    \/ NoneTest /\ UNCHANGED <<vecVars, trainVars>>
    \/ Vectorize /\ UNCHANGED <<vecVars, trainVars>>
    \/ Predict /\ UNCHANGED <<vecVars, trainVars>>
    \/ ImportanceModel /\ UNCHANGED <<vecVars, trainVars>>
    \/ ImportanceKeys /\ UNCHANGED <<vecVars, trainVars>>

\* __main__ loads the artifact (when model.pkl exists) before it starts the
\* server, so serving starts with nothing loaded or with one whole artifact
ThreadInit ==
    /\ \/ ServeInit
       \/ \E d \in ReloadDirs :
             /\ model = ArtifactModel(d)
             /\ feature_keys = ArtifactKeys(d)
             /\ metadata = ArtifactMeta(d)
             /\ model_dir = Path(d)
             /\ req = [op |-> "start"]
             /\ resp = None
    /\ ThreadsIdle
    /\ VecIdle
    /\ TrainIdle

ThreadSpec == ThreadInit /\ [][ThreadNext]_vars

-----------------------------------------------------------------------------
(* What the claims speak of, stated without the handlers *)

\* a value float() does not convert
NonNumeric(v) == v.t = "str" /\ v.s \notin NumericStrings

\* the numeric value of a value float() converts
NumericValue(v) == IF v.t = "num" THEN v.n ELSE StrValue(v.s)

\* some key of the loaded schema has a non-numeric value in the mapping
HasNonNumeric(features) ==
    \E k \in Range(KeysOrEmpty(feature_keys)) :
        k \in DOMAIN features /\ NonNumeric(features[k])

\* the vector of a mapping whose schema values are all numeric
ExpectedVector(features, keys) ==
    [i \in DOMAIN keys |->
        IF keys[i] \in DOMAIN features THEN NumericValue(features[keys[i]]) ELSE 0]

\* the class-1 probability of the loaded classifier for a mapping, or the sole
\* probability of a single-output classifier
ExpectedScore(features) ==
    LET proba == RowProba(model, ExpectedVector(features, KeysOrEmpty(feature_keys)))
    IN  IF model.n_outputs = 1 THEN proba[1] ELSE proba[2]

\* the loaded classifier rejects the vectors of the loaded schema
PredictionRaises == Len(KeysOrEmpty(feature_keys)) # model.n_features

\* rendering the reasons of a mapping raises
ReasonsRaise(features) ==
    ~get_top_reasons(features, get_feature_importance(model, feature_keys), 5).ok

\* a score request with these arguments faults somewhere on its path
ScoreFaults(features, explain) ==
    \/ HasNonNumeric(features)
    \/ PredictionRaises
    \/ explain /\ ReasonsRaise(features)

\* the response of a single score request against the loaded artifact
SingleScore(features, explain) ==
    ScoreResult(features, explain, feature_keys, model, model, feature_keys)

-----------------------------------------------------------------------------
(* Claims about the operations of the scoring service *)

\* C2 (as claimed): after any sequence of load_model calls, failed or not, the
\* classifier, feature_keys, metadata and model_dir all belong to one artifact
\* (or nothing has been loaded at all).
C2_PartsOfOneArtifact ==
    \/ model = None /\ feature_keys = None /\ metadata = None /\ model_dir = None
    \/ \E d \in Dirs :
          /\ model = ArtifactModel(d)
          /\ feature_keys = ArtifactKeys(d)
          /\ metadata = ArtifactMeta(d)
          /\ model_dir = Path(d)

\* C1 (as claimed): a score or batch_score request that runs while load_model
\* runs predicts with the classifier of one artifact on vectors built from
\* the feature_keys of that same artifact, for every row.
C1_ScoreSeesOneArtifact ==
    r_model # None =>
        \E d \in Dirs :
            /\ r_model = ArtifactModel(d)
            /\ \A i \in DOMAIN r_keys : r_keys[i] = ArtifactKeys(d)

\* C3: while no artifact is loaded, score returns exactly
\* {score: 0.5, error: "Model not loaded"}, whatever the features and the
\* explain flag, and raises nothing.
C3_ScoreNotLoaded ==
    (req.op = "score" /\ model = None) =>
        resp = [score |-> 50, error |-> "Model not loaded"]

C3_Witness ==
    /\ req.op = "score" /\ model = None /\ feature_keys = None
    /\ req.explain
    /\ req.features = [k \in ReqKeys |-> Str("abc")]
    /\ DOMAIN resp = {"score", "error"}

\* C4: with an artifact loaded, score never raises and always answers with a
\* score field: {score: 0.5, error} exactly when vectorization, prediction or
\* reason rendering faults, else the class-1 probability (the sole
\* probability of a single-output model), with importance and reasons only
\* under explain.
C4_ScoreNeverRaises ==
    (req.op = "score" /\ model # None) =>
        /\ "score" \in DOMAIN resp
        /\ "exception" \notin DOMAIN resp
        /\ IF ScoreFaults(req.features, req.explain)
           THEN DOMAIN resp = {"score", "error"} /\ resp.score = 50
           ELSE /\ resp.score = ExpectedScore(req.features)
                /\ DOMAIN resp =
                     IF req.explain THEN {"score", "importance", "reasons"} ELSE {"score"}

\* a fault in reason rendering, after a prediction that succeeded
C4_Witness ==
    /\ req.op = "score" /\ model # None
    /\ req.explain
    /\ ~HasNonNumeric(req.features) /\ ~PredictionRaises
    /\ ReasonsRaise(req.features)
    /\ resp.score = 50 /\ "error" \in DOMAIN resp

\* C5 (as claimed): for any loaded artifact and any feature mappings, the
\* scores of batch_score equal the element-wise scores of score, in order.
C5_BatchEqualsSingles ==
    (req.op = "batch_score" /\ model # None) =>
        resp.scores =
            [i \in DOMAIN req.features_list |-> SingleScore(req.features_list[i], FALSE).score]

\* C5 (amended): when batch_score returns without error, its scores equal the
\* element-wise scores of score (asked with the same explain flag, or without
\* explain), in input order; it returns an error exactly when the list is
\* empty or some row's own score request (same explain flag) returns an error.
C5_BatchEqualsSinglesUnlessError ==
    (req.op = "batch_score" /\ model # None) =>
        LET fl == req.features_list IN
        /\ "error" \notin DOMAIN resp =>
              /\ resp.scores = [i \in DOMAIN fl |-> SingleScore(fl[i], req.explain).score]
              /\ resp.scores = [i \in DOMAIN fl |-> SingleScore(fl[i], FALSE).score]
              /\ \A i \in DOMAIN fl : resp.scores[i] = ExpectedScore(fl[i])
        /\ "error" \in DOMAIN resp <=>
              \/ fl = <<>>
              \/ \E i \in DOMAIN fl : "error" \in DOMAIN SingleScore(fl[i], req.explain)

\* two rows with different scores, scored in one batch
C5_Witness ==
    /\ req.op = "batch_score" /\ model # None
    /\ "error" \notin DOMAIN resp
    /\ Len(req.features_list) = 2
    /\ Len(resp.scores) = 2
    /\ resp.scores[1] # resp.scores[2]

\* C6: batch_score is all-or-nothing and never raises: no error and one score
\* per row, or an error and no scores at all.
C6_BatchAllOrNothing ==
    req.op = "batch_score" =>
        /\ "exception" \notin DOMAIN resp
        /\ "scores" \in DOMAIN resp
        /\ \/ "error" \notin DOMAIN resp /\ Len(resp.scores) = Len(req.features_list)
           \/ "error" \in DOMAIN resp /\ resp.scores = <<>>
        /\ (model = None \/ \E i \in DOMAIN req.features_list :
                                 HasNonNumeric(req.features_list[i]))
              => "error" \in DOMAIN resp

\* a batch whose first row is fine and whose second row does not vectorize
C6_Witness ==
    /\ req.op = "batch_score" /\ model # None /\ ~PredictionRaises
    /\ Len(req.features_list) = 2
    /\ ~HasNonNumeric(req.features_list[1])
    /\ HasNonNumeric(req.features_list[2])
    /\ resp.scores = <<>> /\ "error" \in DOMAIN resp

\* C8 (as claimed): in score, batch_score and POST /explain with an artifact
\* loaded, a non-numeric value for a schema key never leaves the operation as
\* an exception.
C8_NonNumericNeverEscapes ==
    /\ (req.op \in {"score", "explain_post"} /\ model # None /\ HasNonNumeric(req.features))
          => "exception" \notin DOMAIN resp
    /\ (req.op = "batch_score" /\ model # None)
          => "exception" \notin DOMAIN resp

\* C9 (as claimed): in POST /explain with an artifact loaded (and numeric
\* features), whenever shap cannot be imported or the unwrapped estimator does
\* not support exact attribution, the response is the heuristic contributions
\* with the reasons, and nothing is raised.
C9_SilentFallback ==
    ( /\ req.op = "explain_post" /\ model # None
      /\ \A k \in DOMAIN req.features : req.features[k].t = "num"
      /\ \/ ~req.shap
         \/ ~TreeShapValues(get_base_estimator(model),
                            ExpectedVector(req.features, KeysOrEmpty(feature_keys))).ok )
    => /\ "exception" \notin DOMAIN resp
       /\ DOMAIN resp = {"contributions", "reasons"}
       /\ resp.contributions =
             HeuristicContributions(req.features,
                 get_feature_importance(model, feature_keys), KeysOrEmpty(feature_keys)).val

-----------------------------------------------------------------------------
(* The three vectorizers, applied to drawn mappings and schemas *)

\* keys of the drawn mappings: one of train.py's schema, one of
\* train-behavioral.py's, one of no schema
VecKeys == {"daysDifference", "scriptCount", "extra"}
VecValues == {Num(3), Str("7"), Str("abc")}
VecMaps == UNION {[S -> VecValues] : S \in SUBSET VecKeys}

\* the longest drawn schema
MaxSchemaLen == 2

\* serve.py's feature_keys: unset, or any list of keys up to the bound
VecSchemas ==
    {None} \cup {PyList(ks) : ks \in UNION {[1..n -> VecKeys] : n \in 0..MaxSchemaLen}}

\* training rows: the mapping under "features", or flat beside the label; and
\* one row whose "features" is no mapping
VecRows ==
    {[features |-> Dict(m), label |-> Num(1)] : m \in VecMaps}
        \cup {m @@ [label |-> Num(1)] : m \in VecMaps}
        \cup {[features |-> Num(3), label |-> Num(1)]}

VecInit ==
    /\ ServeInit
    /\ ThreadsIdle
    /\ TrainIdle
    /\ v_fn = "none"
    /\ v_out = None
    /\ \/ v_in \in VecMaps /\ v_keys \in VecSchemas
       \/ v_in \in VecRows /\ v_keys = None

VecServe ==
    /\ v_fn = "none"
    /\ "label" \notin DOMAIN v_in
    /\ v_fn' = "serve"
    /\ v_out' = extract_vector(v_in, v_keys)
    /\ UNCHANGED <<v_in, v_keys, serveVars, threadVars, trainVars>>

VecTrain ==
    /\ v_fn = "none"
    /\ "label" \in DOMAIN v_in
    /\ v_fn' = "train"
    /\ v_out' = extract_features(v_in)
    /\ UNCHANGED <<v_in, v_keys, serveVars, threadVars, trainVars>>

VecTrainBehavioral ==
    /\ v_fn = "none"
    /\ "label" \in DOMAIN v_in
    /\ v_fn' = "train-behavioral"
    /\ v_out' = extract_features_behavioral(v_in)
    /\ UNCHANGED <<v_in, v_keys, serveVars, threadVars, trainVars>>

VecNext ==
    \/ VecServe
    \/ VecTrain
    \/ VecTrainBehavioral

VecSpec == VecInit /\ [][VecNext]_vars

\* the schema the applied vectorizer used
VecSchema ==
    CASE v_fn = "serve" -> KeysOrEmpty(v_keys)
      [] v_fn = "train" -> FEATURE_KEYS
      [] OTHER -> BEHAVIORAL_FEATURE_KEYS

\* the feature mapping of an argument: the argument itself, or for a training
\* row its "features" entry when it has one
FeaturesOf(in) == IF "features" \in DOMAIN in THEN in["features"].d ELSE in

\* arguments the applied vectorizer takes
VecInputs == IF v_fn = "serve" THEN VecMaps ELSE VecRows \ {[features |-> Num(3), label |-> Num(1)]}

VecApply(in) ==
    CASE v_fn = "serve" -> extract_vector(in, v_keys)
      [] v_fn = "train" -> extract_features(in)
      [] OTHER -> extract_features_behavioral(in)

\* two mappings have the same entries on the keys of a schema
AgreeOn(f, g, keys) ==
    \A k \in Range(keys) :
        /\ k \in DOMAIN f <=> k \in DOMAIN g
        /\ k \in DOMAIN f => f[k] = g[k]

VecApplied == v_fn # "none" /\ ~("features" \in DOMAIN v_in /\ v_in["features"].t # "dict")

-----------------------------------------------------------------------------
(* The training programs: main() of train.py and of train-behavioral.py,   *)
(* which differ in the schema and in the names of the files they write     *)

Progs == {"train", "train-behavioral"}

\* int(v)
int(v) ==
    IF v.t = "num" THEN Ok(v.n)
    ELSE IF v.s \in NumericStrings THEN Ok(StrValue(v.s))
    ELSE Raise("ValueError: invalid literal for int() with base 10")

\* the number of entries of a sequence equal to v
Count(s, v) == Cardinality({i \in DOMAIN s : s[i] = v})

\* the indices of a set, ascending
RECURSIVE Ascending(_)
Ascending(S) ==
    IF S = {} THEN <<>>
    ELSE LET m == CHOOSE a \in S : \A b \in S : a <= b
         IN  <<m>> \o Ascending(S \ {m})

\* [s[i] for i in idx]
Pick(s, idx) == [j \in DOMAIN idx |-> s[idx[j]]]

\* math.ceil(a / b) for positive b
CeilDiv(a, b) == (a + b - 1) \div b

\* len(classes) < 2
TooFewClassesNever(classes) == Cardinality(classes) < 0
TooFewClasses(classes) == Cardinality(classes) < 2

\* the process ends: sys.exit(code), or an exception no one catches (which
\* ends a Python process with code 1)
Exit(code) ==
    /\ pc' = "exit"
    /\ exit_code' = code

\* lines 89-92: rows = load_jsonl(args.input); if not rows: exit 1
LoadRows ==
    /\ pc = "load"
    /\ IF rows = <<>> THEN Exit(1) ELSE pc' = "extract" /\ exit_code' = exit_code
    /\ UNCHANGED <<prog, args, rows, X, y, X_train, y_train, X_test, y_test,
                   n_pos, n_neg, scale_pos_weight, metrics, calls, files>>

\* lines 94-95: X and y; float() or int() raising ends the process
ExtractAll ==
    /\ pc = "extract"
    /\ LET xs == [i \in DOMAIN rows |->
                    IF prog = "train" THEN extract_features(rows[i])
                    ELSE extract_features_behavioral(rows[i])]
           ys == [i \in DOMAIN rows |-> int(Get(rows[i], "label"))]
       IN  IF \E i \in DOMAIN rows : ~xs[i].ok \/ ~ys[i].ok
           THEN Exit(1) /\ UNCHANGED <<X, y>>
           ELSE /\ X' = [i \in DOMAIN rows |-> xs[i].val]
                /\ y' = [i \in DOMAIN rows |-> ys[i].val]
                /\ pc' = "classes"
                /\ exit_code' = exit_code
    /\ UNCHANGED <<prog, args, rows, X_train, y_train, X_test, y_test,
                   n_pos, n_neg, scale_pos_weight, metrics, calls, files>>

\* lines 97-106: classes = set(y); fewer than two: exit 1
CheckClasses ==
    /\ pc = "classes"
    /\ IF TooFewClasses(Range(y)) THEN Exit(1) ELSE pc' = "split" /\ exit_code' = exit_code
    /\ UNCHANGED <<prog, args, rows, X, y, X_train, y_train, X_test, y_test,
                   n_pos, n_neg, scale_pos_weight, metrics, calls, files>>

\* all(y.count(c) >= 2 for c in classes), with more than one class
can_stratify_any == Cardinality(Range(y)) > 1
can_stratify == Cardinality(Range(y)) > 1 /\ \A c \in Range(y) : Count(y, c) >= 2

\* the sizes train_test_split gives the two parts
NTest == CeilDiv(args.test_size * Len(y), 100)
NTrain == Len(y) - NTest

\* the test parts a stratified split may draw: NTest indices, leaving each class
\* its share of the training part, rounded down or up, the classes with the
\* larger remainders rounded up first
StratifiedTests ==
    LET n == Len(y)
        TrainCount(T, c) == Cardinality({i \in DOMAIN y : y[i] = c /\ i \notin T})
        Floor(c) == (Count(y, c) * NTrain) \div n
        Rem(c) == (Count(y, c) * NTrain) % n
    IN  { T \in SUBSET DOMAIN y :
            /\ Cardinality(T) = NTest
            /\ \A c \in Range(y) : TrainCount(T, c) \in {Floor(c), Floor(c) + 1}
            /\ \A c, e \in Range(y) :
                  (TrainCount(T, c) = Floor(c) + 1 /\ TrainCount(T, e) = Floor(e))
                      => Rem(c) >= Rem(e) }

\* lines 108-116: the stratified split (which raises when a part is smaller
\* than the number of classes), or all rows for training
Split ==
    /\ pc = "split"
    /\ IF can_stratify
       THEN /\ calls' = calls \cup {"train_test_split"}
            /\ IF NTrain < Cardinality(Range(y)) \/ NTest < Cardinality(Range(y))
               THEN Exit(1) /\ UNCHANGED <<X_train, y_train, X_test, y_test>>
               ELSE \E T \in StratifiedTests :
                       /\ X_train' = Pick(X, Ascending(DOMAIN y \ T))
                       /\ y_train' = Pick(y, Ascending(DOMAIN y \ T))
                       /\ X_test' = Pick(X, Ascending(T))
                       /\ y_test' = Pick(y, Ascending(T))
                       /\ pc' = "balance"
                       /\ exit_code' = exit_code
       ELSE /\ X_train' = X
            /\ y_train' = y
            /\ X_test' = <<>>
            /\ y_test' = <<>>
            /\ pc' = "balance"
            /\ UNCHANGED <<calls, exit_code>>
    /\ UNCHANGED <<prog, args, rows, X, y, n_pos, n_neg, scale_pos_weight, metrics, files>>

\* the indices of the entries of y_train equal to v, ascending
IdxOf(v) == Ascending({i \in DOMAIN y_train : y_train[i] = v})

\* resample(..., n_samples=n, replace=True) of the examples at idx: the draws
\* it may make, each a choice of n of them with repetition
resample_without_growth(idx, n) == [1..Len(idx) -> DOMAIN idx]
resample(idx, n) == [1..n -> DOMAIN idx]

\* lines 118-140: count the classes of the training part; with --balance and
\* unequal counts, replace the minority class by a sample of it, drawn with
\* replacement, as large as the majority class
Balance ==
    /\ pc = "balance"
    /\ n_pos' = Count(y_train, 1)
    /\ n_neg' = Count(y_train, 0)
    /\ IF args.balance /\ n_pos' > 0 /\ n_neg' > 0 /\ n_pos' # n_neg'
       THEN /\ calls' = calls \cup {"resample"}
            /\ LET pos_idx == IdxOf(1)
                   neg_idx == IdxOf(0)
               IN  IF n_pos' < n_neg'
                   THEN \E draw \in resample(pos_idx, n_neg') :
                           /\ X_train' = Pick(X_train, neg_idx)
                                            \o [j \in DOMAIN draw |-> X_train[pos_idx[draw[j]]]]
                           /\ y_train' = Pick(y_train, neg_idx)
                                            \o [j \in DOMAIN draw |-> y_train[pos_idx[draw[j]]]]
                   ELSE \E draw \in resample(neg_idx, n_pos') :
                           /\ X_train' = [j \in DOMAIN draw |-> X_train[neg_idx[draw[j]]]]
                                            \o Pick(X_train, pos_idx)
                           /\ y_train' = [j \in DOMAIN draw |-> y_train[neg_idx[draw[j]]]]
                                            \o Pick(y_train, pos_idx)
       ELSE UNCHANGED <<X_train, y_train, calls>>
    /\ pc' = "fit"
    /\ UNCHANGED <<prog, args, rows, exit_code, X, y, X_test, y_test,
                   scale_pos_weight, metrics, files>>

\* args.calibrate and not args.no_calibrate: --calibrate defaults to True
do_calibrate == ~args.no_calibrate

\* CalibratedClassifierCV(cv=3).fit refuses a class with fewer than 3 examples
FitRaises == do_calibrate /\ \E c \in Range(y_train) : Count(y_train, c) < 3

\* lines 142-157: scale_pos_weight from the counts of line 118-119, then
\* model.fit(X_train, y_train)
Fit ==
    /\ pc = "fit"
    /\ scale_pos_weight' =
          IF n_pos > 0 /\ n_neg > 0 /\ args.balance THEN <<n_neg, n_pos>> ELSE <<1, 1>>
    /\ calls' = calls \cup {"fit"}
    /\ IF FitRaises THEN Exit(1) ELSE pc' = "evaluate" /\ exit_code' = exit_code
    /\ UNCHANGED <<prog, args, rows, X, y, X_train, y_train, X_test, y_test,
                   n_pos, n_neg, metrics, files>>

\* lines 159-178: the metrics of a test part that is not empty
Evaluate ==
    /\ pc = "evaluate"
    /\ IF X_test # <<>> /\ y_test # <<>>
       THEN /\ calls' = calls \cup {"predict"}
            /\ metrics' = {"accuracy", "precision", "recall"}
                             \cup (IF Cardinality(Range(y_test)) > 1 THEN {"roc_auc"} ELSE {})
       ELSE /\ metrics' = {}
            /\ calls' = calls
    /\ pc' = "write"
    /\ UNCHANGED <<prog, args, rows, exit_code, X, y, X_train, y_train, X_test, y_test,
                   n_pos, n_neg, scale_pos_weight, files>>

\* a written file
File(name, content) == [name |-> name, content |-> content]

\* lines 188-195: the metadata dict (training_date, the clock's reading, left out)
Metadata ==
    [model_type |-> IF prog = "train"
                    THEN (IF do_calibrate THEN "xgboost_calibrated" ELSE "xgboost")
                    ELSE (IF do_calibrate THEN "xgboost_behavioral_calibrated"
                                          ELSE "xgboost_behavioral"),
     feature_keys |-> IF prog = "train" THEN FEATURE_KEYS ELSE BEHAVIORAL_FEATURE_KEYS,
     dataset_size |-> Len(rows),
     class_distribution |-> [good |-> n_neg, bad |-> n_pos],
     metrics |-> metrics]

\* lines 180-200: the model, the feature keys and the metadata are written
Write ==
    /\ pc = "write"
    /\ LET fitted == [calibrated |-> do_calibrate, scale_pos_weight |-> scale_pos_weight]
       IN  files' = IF prog = "train"
                    THEN {File("model.pkl", fitted),
                          File("feature_keys.pkl", [keys |-> FEATURE_KEYS]),
                          File("metadata.json", Metadata)}
                    ELSE {File("behavioral-model.pkl", fitted),
                          File("behavioral-feature_keys.pkl", [keys |-> BEHAVIORAL_FEATURE_KEYS]),
                          File("behavioral-metadata.json", Metadata)}
    /\ pc' = "done"
    /\ exit_code' = 0
    /\ UNCHANGED <<prog, args, rows, X, y, X_train, y_train, X_test, y_test,
                   n_pos, n_neg, scale_pos_weight, metrics, calls>>

\* the rows of the drawn datasets: a benign and a malicious row, a flat row
\* without a label, a row whose label is no number, a row whose features are
\* no numbers
TrainRows ==
    { [features |-> Dict([daysDifference |-> Num(3), scriptCount |-> Num(3)]), label |-> Num(0)],
      [features |-> Dict([daysDifference |-> Num(-2)]), label |-> Num(1)],
      [daysDifference |-> Num(3)],
      [features |-> Dict(<<>>), label |-> Str("abc")],
      [features |-> Dict([daysDifference |-> Str("abc"), scriptCount |-> Str("abc")]),
       label |-> Num(1)] }

\* the longest drawn dataset
MaxRows == 4

\* the well-formed rows among them, and the longest dataset drawn from these
\* alone: long enough for a stratified split with unequal classes
LabelledRows == {r \in TrainRows : "label" \in DOMAIN r /\ r.label \in {Num(0), Num(1)}
                                      /\ extract_features(r).ok}
MaxLabelledRows == 6

\* longer datasets of the skew the programs are written for: two malicious
\* rows among benign ones, which a stratified split can leave out of the test
\* part altogether
MaxSkewedRows == 9
SkewedDatasets ==
    UNION { {d \in [1..n -> LabelledRows] :
                Cardinality({i \in 1..n : d[i].label = Num(1)}) = 2}
            : n \in (MaxLabelledRows + 1)..MaxSkewedRows }

TestSizes == {20, 50}

TrainInit ==
    /\ ServeInit
    /\ ThreadsIdle
    /\ VecIdle
    /\ prog \in Progs
    /\ args \in [balance : BOOLEAN, no_calibrate : BOOLEAN, test_size : TestSizes]
    /\ rows \in UNION {[1..n -> TrainRows] : n \in 0..MaxRows}
                 \cup UNION {[1..n -> LabelledRows] : n \in (MaxRows + 1)..MaxLabelledRows}
                 \cup SkewedDatasets
    /\ pc = "load"
    /\ exit_code = -1
    /\ X = <<>> /\ y = <<>>
    /\ X_train = <<>> /\ y_train = <<>>
    /\ X_test = <<>> /\ y_test = <<>>
    /\ n_pos = 0 /\ n_neg = 0
    /\ scale_pos_weight = <<>>
    /\ metrics = {}
    /\ calls = {}
    /\ files = {}

TrainNext ==
    \/ LoadRows /\ UNCHANGED <<serveVars, threadVars, vecVars>>
    \/ ExtractAll /\ UNCHANGED <<serveVars, threadVars, vecVars>>
    \/ CheckClasses /\ UNCHANGED <<serveVars, threadVars, vecVars>>
    \/ Split /\ UNCHANGED <<serveVars, threadVars, vecVars>>
    \/ Balance /\ UNCHANGED <<serveVars, threadVars, vecVars>>
    \/ Fit /\ UNCHANGED <<serveVars, threadVars, vecVars>>
    \/ Evaluate /\ UNCHANGED <<serveVars, threadVars, vecVars>>
    \/ Write /\ UNCHANGED <<serveVars, threadVars, vecVars>>

TrainSpec == TrainInit /\ [][TrainNext]_vars

\* the labels of the dataset all convert, to fewer than two distinct classes
SingleClass ==
    /\ \A i \in DOMAIN rows : int(Get(rows[i], "label")).ok
    /\ Cardinality({int(Get(rows[i], "label")).val : i \in DOMAIN rows}) < 2

\* C10: in both training programs an empty dataset, or one whose labels have
\* fewer than 2 distinct classes, ends the process with exit code 1 before
\* any split, resampling or fit is called and before any file is written.
C10_FatalPreconditions ==
    (pc # "idle" /\ (rows = <<>> \/ SingleClass)) =>
        /\ pc \in {"load", "extract", "classes", "exit"}
        /\ exit_code = IF pc = "exit" THEN 1 ELSE -1
        /\ calls = {}
        /\ files = {}
        /\ X_train = <<>> /\ y_train = <<>>
        /\ scale_pos_weight = <<>>

\* labels [0, 0, 0]: vectorized, then refused at the class test
C10_Witness ==
    /\ prog = "train-behavioral"
    /\ Len(rows) = 3
    /\ y = <<0, 0, 0>>
    /\ pc = "exit"
    /\ exit_code = 1
    /\ files = {}

\* how often the example (x, v) occurs in the split (Xs, ys)
Occurrences(Xs, ys, x, v) == Cardinality({i \in DOMAIN ys : Xs[i] = x /\ ys[i] = v})

\* C11: with --balance and a training split holding both classes in different
\* counts, the balancing step leaves as many positives as negatives, both the
\* majority count of before; every majority example is kept exactly once;
\* every minority example of the result is a copy of a minority example of
\* before; the test split is untouched. Without --balance, or with equal
\* counts, the training split is unchanged.
C11_Balancing ==
    [][pc = "balance" =>
        LET pos == Count(y_train, 1)
            neg == Count(y_train, 0)
            major == IF pos > neg THEN pos ELSE neg
            majority == IF pos > neg THEN 1 ELSE 0
            minority == 1 - majority
        IN  /\ X_test' = X_test
            /\ y_test' = y_test
            /\ IF args.balance /\ pos > 0 /\ neg > 0 /\ pos # neg
               THEN /\ Count(y_train', 1) = major
                    /\ Count(y_train', 0) = major
                    /\ Len(X_train') = Len(y_train')
                    /\ \A i \in DOMAIN y_train :
                          y_train[i] = majority =>
                             Occurrences(X_train', y_train', X_train[i], majority)
                                = Occurrences(X_train, y_train, X_train[i], majority)
                    /\ \A j \in DOMAIN y_train' :
                          /\ y_train'[j] = majority =>
                                Occurrences(X_train, y_train, X_train'[j], majority) > 0
                          /\ y_train'[j] = minority =>
                                Occurrences(X_train, y_train, X_train'[j], minority) > 0
               ELSE /\ X_train' = X_train
                    /\ y_train' = y_train
    ]_vars

\* 3 negatives and 1 positive of a stratified split became 3 and 3, next to a
\* test split of both classes
C11_Witness ==
    /\ pc = "fit"
    /\ args.balance
    /\ n_neg = 3 /\ n_pos = 1
    /\ Count(y_train, 0) = 3 /\ Count(y_train, 1) = 3
    /\ "resample" \in calls
    /\ Len(y_test) = 2

\* the positions after the split
AfterSplit == {"balance", "fit", "evaluate", "write", "done"}

\* every label class of the dataset has at least 2 members
EveryClassTwice == \A c \in Range(y) : Count(y, c) >= 2

\* the metrics mappings recorded in written metadata
RecordedMetrics == {f.content.metrics : f \in {g \in files : "metrics" \in DOMAIN g.content}}

\* C12: the stratified split is called only when every label class of the
\* dataset has at least 2 members; otherwise the training split is the whole
\* dataset and the test split is empty. The metrics written to the metadata
\* are empty when the test split is empty, and hold roc_auc only when the
\* test split contains both classes.
C12_SplitAndMetrics ==
    /\ "train_test_split" \in calls => EveryClassTwice
    /\ (pc \in AfterSplit /\ ~EveryClassTwice) =>
          /\ X_test = <<>> /\ y_test = <<>>
          /\ pc = "balance" => (X_train = X /\ y_train = y)
    /\ pc \in {"write", "done"} =>
          /\ (X_test = <<>> \/ y_test = <<>>) => metrics = {}
          /\ "roc_auc" \in metrics => {0, 1} \subseteq Range(y_test)
    /\ pc = "done" => RecordedMetrics = {metrics}

\* a dataset of 7 benign and 2 malicious rows, split with a test part of benign
\* rows only: the metadata is written with metrics but without roc_auc
C12_Witness ==
    /\ pc = "done"
    /\ "train_test_split" \in calls
    /\ Range(y_test) = {0}
    /\ RecordedMetrics = {{"accuracy", "precision", "recall"}}

\* the factor n_neg / n_pos, kept as the pair <<n_neg, n_pos>>, is 1.0
Neutral(w) == w[1] = w[2]

\* C13: the class-weighting factor passed to the base classifier is the
\* neutral 1.0 whenever balancing is not requested, or balancing has
\* oversampled the training split to equal class counts.
C13_WeightOnlyWithoutParity ==
    scale_pos_weight # <<>> =>
        /\ ~args.balance => Neutral(scale_pos_weight)
        /\ ("resample" \in calls /\ Count(y_train, 0) = Count(y_train, 1))
              => Neutral(scale_pos_weight)

====
